---- MODULE Spec2Model ----
(***************************************************************************)
(* The concurrent DAG scheduler of `wolfictl build`: buildAll, the task    *)
(* goroutines (maybeStart / start / wait / build / buildArch), the job     *)
(* semaphore jobch, the completion channel donech and the global mutex mu. *)
(***************************************************************************)
EXTENDS Integers, Sequences, FiniteSets, TLC

\* ------------------------------------------------------------------ bounds

\* Largest --jobs value tried (capacity of jobch and of donech).
MaxJobs == 2

\* ------------------------------------------------------------------ values

Nil == <<"nil">>
CtxCanceled == <<"context canceled">>
NoTask == 0

\* The --arch lists tried with small workspaces, and the recipe
\* target-architecture lists.
ArchLists == { <<"x86_64">>, <<"x86_64", "aarch64">>, <<"amd64">> }
TargetLists == { <<>>, <<"all">>, <<"aarch64">>, <<"aarch64", "all">>, <<"all", "aarch64">> }

ToAPK(arch) ==
    CASE arch = "amd64" -> "x86_64"
      [] arch = "arm64" -> "aarch64"
      [] OTHER -> arch

RECURSIVE SelectSeqIn(_, _)
SelectSeqIn(s, keep) ==
    IF s = <<>> THEN <<>>
    ELSE IF Head(s) \in keep THEN <<Head(s)>> \o SelectSeqIn(Tail(s), keep)
         ELSE SelectSeqIn(Tail(s), keep)

Range(s) == { s[i] : i \in DOMAIN s }

filterArchs(archs, targets) ==
    IF Len(targets) = 0 \/ targets[1] = "all"
    THEN archs
    ELSE SelectSeqIn(archs, Range(targets))

\* ------------------------------------------------------------------ state

VARIABLES
    cfg,        \* global: jobs, dryrun, generateIndex, archs; runnerOk: newRunner knows runner
    ctxErr,     \* ctx.Err() != nil
    m,          \* dagCfg.m: package -> targets of its outgoing edges
    tasks,      \* names of the tasks map
    deps,       \* task.deps
    args,       \* positional arguments
    started, done, skipped, err,   \* task fields
    pc,         \* position of each task's start goroutine
    tostart,    \* deps the first loop of start has not visited yet
    towait,     \* deps the second loop of start has not visited yet
    needsBuild, needsIndex,        \* locals of build, remaining entries
    jobch,      \* number of permits held in cfg.jobch
    donech,     \* contents of cfg.donech
    mu,         \* holder of cfg.mu (NoTask when free)
    aggPc, todos, toStartSel, count, errs, skippedCnt, log, ret,  \* buildAll
    \* history
    spawns, entered, doneCnt, sends, recvd,
    classified  \* what each build saw when it classified (when recorded)

cfgVars == <<cfg, m, tasks, deps, args>>
taskVars == <<started, done, skipped, err, pc, tostart, towait, needsBuild, needsIndex>>
syncVars == <<jobch, donech, mu>>
aggVars == <<aggPc, todos, toStartSel, count, errs, skippedCnt, log, ret>>
histVars == <<spawns, entered, doneCnt, sends, recvd, classified>>
vars == <<cfgVars, ctxErr, taskVars, syncVars, aggVars, histVars>>

\* ------------------------------------------------------------------ helpers

Pkgs(n) == 1..n

\* Every acyclic adjacency map over n packages: the edges of a package point
\* to lower-numbered ones.
Graphs(n) == { d \in [Pkgs(n) -> SUBSET Pkgs(n)] : \A i \in Pkgs(n) : d[i] \subseteq 1..(i-1) }

\* The flag settings tried: the defaults, --dry-run, --generate-index=false,
\* and a --runner that newRunner does not know.
DefaultFlags == [dryrun |-> FALSE, generateIndex |-> TRUE, runnerOk |-> TRUE]
DryRunFlags == [dryrun |-> TRUE, generateIndex |-> TRUE, runnerOk |-> TRUE]
Flags ==
    { DefaultFlags, DryRunFlags,
      [dryrun |-> FALSE, generateIndex |-> FALSE, runnerOk |-> TRUE],
      [dryrun |-> FALSE, generateIndex |-> TRUE, runnerOk |-> FALSE] }

\* The workspaces of three packages tried: the chain 3 -> 2 -> 1, the fan-in
\* 3 -> {1, 2} and the fan-out {2, 3} -> 1 (an edge points from a package to
\* one it depends on).
Trios == { <<{}, {1}, {2}>>, <<{}, {}, {1, 2}>>, <<{}, {1}, {1}>> }

\* The runs tried, << <<workspace, --arch list>>, flags >>: every workspace of up
\* to two packages with every arch list and flag setting, and the workspaces
\* of three packages with one architecture, built or dry-run.
Inputs ==
    (((Graphs(0) \cup Graphs(1) \cup Graphs(2)) \X ArchLists) \X Flags)
      \cup ((Trios \X { <<"x86_64">> }) \X { DefaultFlags, DryRunFlags })

\* The positional arguments tried: none, any names of the workspace, or a
\* name that is not in it.
Selections(T) == SUBSET T \cup { {Cardinality(T) + 1} }

RECURSIVE Closure(_, _)
\* The packages of S together with their transitive dependencies.
Closure(d, S) ==
    LET next == S \cup UNION { d[t] : t \in S }
    IN  IF next = S THEN S ELSE Closure(d, next)

TransDeps(t) == Closure(deps, deps[t])

\* ------------------------------------------------------------------ Init

\* The runs in which the classification of each build is recorded, with the
\* default flags: one package and every arch list, or `2 depends on 1` and
\* a single architecture.
ClassifyInputs ==
    (({ <<{}>> } \X ArchLists) \cup ({ <<{}, {1}>> } \X { <<"x86_64">>, <<"amd64">> }))
      \X { DefaultFlags }

\* Mutant: a task gets as deps the sources of the edges that point to it.
taskDepsOfSources(adj) == [pkg \in DOMAIN adj |-> { k \in DOMAIN adj : pkg \in adj[k] }]

\* The deps buildAll gives each task: tasks[pkg].deps[d] for the Target d of
\* every edge in the adjacency entry of pkg.
taskDeps(adj) == [pkg \in DOMAIN adj |-> adj[pkg]]

\* classified[t] before build(t) has classified, and the value of classified
\* in the runs that do not record it.
NotClassified == [archs |-> <<>>]
NotRecorded == <<>>

\* The state of buildAll after the tasks map is built; nothing is started.
\* ins are the runs tried, record says whether classified is kept.
InitOf(ins, record) ==
    /\ \E in \in ins, j \in 1..MaxJobs :
          /\ m = in[1][1]
          /\ cfg = [jobs |-> j, dryrun |-> in[2].dryrun,
                    generateIndex |-> in[2].generateIndex,
                    runnerOk |-> in[2].runnerOk, archs |-> in[1][2]]
    /\ tasks = DOMAIN m
    /\ deps = taskDeps(m)
    /\ args \in Selections(tasks)
    /\ ctxErr = FALSE
    /\ started = [t \in tasks |-> FALSE]
    /\ done = [t \in tasks |-> FALSE]
    /\ skipped = [t \in tasks |-> FALSE]
    /\ err = [t \in tasks |-> Nil]
    /\ pc = [t \in tasks |-> "idle"]
    /\ tostart = [t \in tasks |-> {}]
    /\ towait = [t \in tasks |-> {}]
    /\ needsBuild = [t \in tasks |-> {}]
    /\ needsIndex = [t \in tasks |-> {}]
    /\ jobch = 0
    /\ donech = <<>>
    /\ mu = NoTask
    /\ aggPc = "select"
    /\ todos = {}
    /\ toStartSel = {}
    /\ count = 0
    /\ errs = <<>>
    /\ skippedCnt = 0
    /\ log = <<>>
    /\ ret = <<"running">>
    /\ spawns = [t \in tasks |-> 0]
    /\ entered = [t \in tasks |-> FALSE]
    /\ doneCnt = [t \in tasks |-> 0]
    /\ sends = [t \in tasks |-> 0]
    /\ recvd = <<>>
    /\ classified = IF record THEN [t \in tasks |-> NotClassified] ELSE NotRecorded

Init == InitOf(Inputs, FALSE)

\* The same, recording what each build saw.
ClassifyInit == InitOf(ClassifyInputs, TRUE)

\* ------------------------------------------------------------------ task.maybeStart

\* Mutant: maybeStart spawns without looking at t.started.
ShouldSpawnAlways(t) == t \in tasks

\* maybeStart spawns `go t.start(ctx)` only when t.started is still false.
ShouldSpawn(t) == ~started[t]

\* Mutant: start does not start its dependencies.
DepsToStartNone(t) == {}

\* The dependencies the first loop of start calls maybeStart on.
DepsToStart(t) == deps[t]

\* The position of a freshly spawned start goroutine of t.
SpawnPc(t) ==
    IF DepsToStart(t) # {} THEN "startDeps"
    ELSE IF deps[t] # {} THEN "waitDeps" ELSE "acquire"

\* t.maybeStart(ctx) called by `by` (NoTask: the selection loop of buildAll),
\* which moves to position byPc and has todo left in its own first loop.
maybeStart(t, by, byPc, todo) ==
    LET spawn == ShouldSpawn(t) IN
    /\ started' = [started EXCEPT ![t] = TRUE]
    /\ spawns' = [spawns EXCEPT ![t] = IF spawn THEN @ + 1 ELSE @]
    /\ towait' = [towait EXCEPT ![t] = IF spawn THEN deps[t] ELSE @]
    /\ pc' = [x \in tasks |->
                IF x = t /\ spawn THEN SpawnPc(t)
                ELSE IF x = by THEN byPc ELSE pc[x]]
    /\ tostart' = [x \in tasks |->
                IF x = t /\ spawn THEN DepsToStart(t)
                ELSE IF x = by THEN todo ELSE tostart[x]]

\* ------------------------------------------------------------------ task.start

\* First loop of start: dep.maybeStart(ctx) for one more dependency.
StartDep(t, d) ==
    /\ pc[t] = "startDeps"
    /\ d \in tostart[t]
    /\ maybeStart(d, t, IF tostart[t] = {d} THEN "waitDeps" ELSE "startDeps",
                  tostart[t] \ {d})
    /\ UNCHANGED <<cfgVars, ctxErr, done, skipped, err, needsBuild, needsIndex,
                   syncVars, aggVars, entered, doneCnt, sends, recvd, classified>>

\* Mutant: wait returns as soon as the task is started.
waitReturnsUnparked(d) == started[d]

\* task.wait parks the caller until d.done.
waitReturns(d) == done[d]

\* Mutant: wait drops the error.
waitResultNil(d) == IF done[d] THEN Nil ELSE err[d]

\* task.wait returns d.err.
waitResult(d) == err[d]

\* Second loop of start: dep.wait() returned for one more dependency; an
\* error is adopted and start returns (the deferred function runs next).
WaitDep(t, d) ==
    /\ pc[t] = "waitDeps"
    /\ d \in towait[t]
    /\ waitReturns(d)
    /\ IF waitResult(d) # Nil
       THEN /\ err' = [err EXCEPT ![t] = waitResult(d)]
            /\ pc' = [pc EXCEPT ![t] = "markDone"]
            /\ UNCHANGED towait
       ELSE /\ towait' = [towait EXCEPT ![t] = @ \ {d}]
            /\ pc' = [pc EXCEPT ![t] = IF towait[t] = {d} THEN "acquire" ELSE "waitDeps"]
            /\ UNCHANGED err
    /\ UNCHANGED <<cfgVars, ctxErr, started, done, skipped, tostart, needsBuild,
                   needsIndex, syncVars, aggVars, histVars>>

\* Mutant: jobch is made one slot too large.
CanAcquireOneMore == jobch < cfg.jobs + 1

\* `t.cfg.jobch <- struct{}{}` can proceed while the channel has room.
CanAcquire == jobch < cfg.jobs

\* Mutant: the permit is never given back.
ReleasedNever(j) == j

\* `<-t.cfg.jobch` gives the permit back.
Released(j) == j - 1

\* ------------------------------------------------------------------ task.build

\* Keys of cfg.exists: buildAll stores each index under the APK name of the arch.
ExistsKeys == { ToAPK(a) : a \in Range(cfg.archs) }

\* needsIndex after the classification loop: the effective architectures
\* whose artifact is not in cfg.exists[arch].
ClassifyIndex(archs, published) == { a \in Range(archs) : a \notin published }

\* needsBuild after the classification loop: those of needsIndex with no
\* local artifact file.
ClassifyBuild(archs, published, local) ==
    { a \in ClassifyIndex(archs, published) : a \notin local }

\* Mutant: build does not look at --generate-index.
AfterBuildPcIndexAlways(nb) == IF nb # {} THEN "buildLoop" ELSE "lockIndex"

\* Where build goes once the needsBuild loop has nb left.
AfterBuildPc(nb) ==
    IF nb # {} THEN "buildLoop"
    ELSE IF cfg.generateIndex THEN "lockIndex" ELSE "release"

\* start acquires a permit and calls build, which classifies the effective
\* architectures. targets is the recipe's target-architecture list, published
\* the keys of cfg.exists that hold the artifact, local the architectures
\* whose artifact file exists.
Enter(t) ==
    /\ pc[t] = "acquire"
    /\ CanAcquire
    /\ jobch' = jobch + 1
    /\ entered' = [entered EXCEPT ![t] = TRUE]
    /\ \E targets \in TargetLists, published \in SUBSET ExistsKeys,
          local \in SUBSET Range(cfg.archs) :
          LET archs == filterArchs(cfg.archs, targets)
              ni == ClassifyIndex(archs, published)
              nb == ClassifyBuild(archs, published, local)
              to == IF nb = {} /\ ni = {} THEN "release" ELSE AfterBuildPc(nb)
          IN  /\ needsIndex' = [needsIndex EXCEPT ![t] = IF to = "release" THEN {} ELSE ni]
              /\ needsBuild' = [needsBuild EXCEPT ![t] = nb]
              /\ skipped' = [skipped EXCEPT ![t] = (nb = {} /\ ni = {})]
              /\ pc' = [pc EXCEPT ![t] = to]
              /\ classified' =
                    IF classified = NotRecorded THEN classified
                    ELSE [classified EXCEPT ![t] =
                            [targets |-> targets, archs |-> archs,
                             published |-> published, local |-> local,
                             needsIndex |-> ni, needsBuild |-> nb]]
    /\ UNCHANGED <<cfgVars, ctxErr, started, done, err, tostart, towait,
                   donech, mu, aggVars, spawns, doneCnt, sends, recvd>>

\* Mutant: a failed task cancels the context of the others, as an
\* errgroup.WithContext would.
buildArchCtxErrOrFailed == ctxErr \/ \E u \in tasks : err[u] # Nil

\* buildArch returns ctx.Err() first of all when the context is cancelled.
buildArchCtxErr == ctxErr

\* build returns: its locals needsBuild and needsIndex are gone.
Returned(f, t) == [f EXCEPT ![t] = {}]

\* One iteration of the needsBuild loop up to the call of the build driver:
\* the dry-run log, or buildArch's context check and its creation of the
\* runner, after which bc.BuildPackage is running.
BuildArchBegin(t, a) ==
    /\ pc[t] = "buildLoop"
    /\ a \in needsBuild[t]
    /\ IF cfg.dryrun
       THEN LET to == AfterBuildPc(needsBuild[t] \ {a}) IN
            /\ pc' = [pc EXCEPT ![t] = to]
            /\ needsBuild' = [needsBuild EXCEPT ![t] = @ \ {a}]
            /\ needsIndex' = IF to = "release" THEN Returned(needsIndex, t) ELSE needsIndex
            /\ UNCHANGED err
       ELSE IF buildArchCtxErr
       THEN /\ err' = [err EXCEPT ![t] = CtxCanceled]
            /\ pc' = [pc EXCEPT ![t] = "release"]
            /\ needsBuild' = Returned(needsBuild, t)
            /\ needsIndex' = Returned(needsIndex, t)
       ELSE IF ~cfg.runnerOk
       THEN /\ err' = [err EXCEPT ![t] = <<"creating runner", t>>]
            /\ pc' = [pc EXCEPT ![t] = "release"]
            /\ needsBuild' = Returned(needsBuild, t)
            /\ needsIndex' = Returned(needsIndex, t)
       ELSE /\ needsBuild' = [needsBuild EXCEPT ![t] = @ \ {a}]
            /\ pc' = [pc EXCEPT ![t] = "driver"]
            /\ UNCHANGED <<err, needsIndex>>
    /\ UNCHANGED <<cfgVars, ctxErr, started, done, skipped, tostart, towait,
                   syncVars, aggVars, histVars>>

\* bc.BuildPackage returns: nil, and the loop goes on, or an error.
DriverReturns(t, ok) ==
    /\ pc[t] = "driver"
    /\ LET to == IF ok THEN AfterBuildPc(needsBuild[t]) ELSE "lockLogs" IN
       /\ pc' = [pc EXCEPT ![t] = to]
       /\ needsIndex' = IF to = "release" THEN Returned(needsIndex, t) ELSE needsIndex
    /\ UNCHANGED <<cfgVars, ctxErr, started, done, skipped, err, tostart, towait,
                   needsBuild, syncVars, aggVars, histVars>>

\* Mutant: Lock does not wait for the holder.
CanLockAlways == TRUE

\* cfg.mu.Lock() can proceed while nobody holds the mutex.
CanLock == mu = NoTask

\* buildArch, build failed: t.cfg.mu.Lock() before dumping the log file.
LockLogs(t) ==
    /\ pc[t] = "lockLogs"
    /\ CanLock
    /\ mu' = t
    /\ pc' = [pc EXCEPT ![t] = "dumpLogs"]
    /\ UNCHANGED <<cfgVars, ctxErr, started, done, skipped, err, tostart, towait,
                   needsBuild, needsIndex, jobch, donech, aggVars, histVars>>

\* buildArch, build failed: logs(logfile), return the wrapped error; the
\* deferred Unlock runs and build returns the error.
DumpLogs(t) ==
    /\ pc[t] = "dumpLogs"
    /\ mu' = NoTask
    /\ err' = [err EXCEPT ![t] = <<"building package", t>>]
    /\ pc' = [pc EXCEPT ![t] = "release"]
    /\ needsBuild' = Returned(needsBuild, t)
    /\ needsIndex' = Returned(needsIndex, t)
    /\ UNCHANGED <<cfgVars, ctxErr, started, done, skipped, tostart, towait,
                   jobch, donech, aggVars, histVars>>

\* build: t.cfg.mu.Lock() before the needsIndex loop.
LockIndex(t) ==
    /\ pc[t] = "lockIndex"
    /\ CanLock
    /\ mu' = t
    /\ pc' = [pc EXCEPT ![t] = "index"]
    /\ UNCHANGED <<cfgVars, ctxErr, started, done, skipped, err, tostart, towait,
                   needsBuild, needsIndex, jobch, donech, aggVars, histVars>>

\* Mutant: the needsIndex loop does not look at --dry-run.
IndexDryRunNever == FALSE

\* The needsIndex loop logs and continues when t.cfg.dryrun.
IndexDryRun == cfg.dryrun

\* One iteration of the needsIndex loop up to the call of the index
\* generator: the dry-run log (and, after the last one, the return of nil
\* and the deferred Unlock), or index.New and idx.GenerateIndex running.
IndexArch(t, a) ==
    /\ pc[t] = "index"
    /\ a \in needsIndex[t]
    /\ needsIndex' = [needsIndex EXCEPT ![t] = @ \ {a}]
    /\ IF IndexDryRun
       THEN /\ mu' = IF needsIndex[t] = {a} THEN NoTask ELSE mu
            /\ pc' = [pc EXCEPT ![t] = IF needsIndex[t] = {a} THEN "release" ELSE "index"]
       ELSE /\ pc' = [pc EXCEPT ![t] = "generate"]
            /\ UNCHANGED mu
    /\ UNCHANGED <<cfgVars, ctxErr, started, done, skipped, err, tostart, towait,
                   needsBuild, jobch, donech, aggVars, histVars>>

\* index.New / idx.GenerateIndex returns: nil, and the loop goes on, or an
\* error, which build returns. When build returns the deferred Unlock runs.
GenerateReturns(t, ok) ==
    /\ pc[t] = "generate"
    /\ IF ok
       THEN /\ mu' = IF needsIndex[t] = {} THEN NoTask ELSE mu
            /\ pc' = [pc EXCEPT ![t] = IF needsIndex[t] = {} THEN "release" ELSE "index"]
            /\ UNCHANGED <<err, needsIndex>>
       ELSE /\ err' = [err EXCEPT ![t] = <<"index", t>>]
            /\ mu' = NoTask
            /\ pc' = [pc EXCEPT ![t] = "release"]
            /\ needsIndex' = Returned(needsIndex, t)
    /\ UNCHANGED <<cfgVars, ctxErr, started, done, skipped, tostart, towait,
                   needsBuild, jobch, donech, aggVars, histVars>>

\* start's first deferred function up to the send, under t.cond.L:
\* t.done = true, Broadcast.
Latch(t) ==
    /\ done' = [done EXCEPT ![t] = TRUE]
    /\ doneCnt' = [doneCnt EXCEPT ![t] = @ + 1]
    /\ pc' = [pc EXCEPT ![t] = "send"]

\* build has returned: start's second deferred function, `<-t.cfg.jobch`,
\* and then the first one up to the send.
Release(t) ==
    /\ pc[t] = "release"
    /\ jobch' = Released(jobch)
    /\ Latch(t)
    /\ UNCHANGED <<cfgVars, ctxErr, started, skipped, err, tostart, towait,
                   needsBuild, needsIndex, donech, mu, aggVars, spawns, entered,
                   sends, recvd, classified>>

\* start returned from its wait loop with a dependency's error: only the
\* first deferred function is registered.
MarkDone(t) ==
    /\ pc[t] = "markDone"
    /\ Latch(t)
    /\ UNCHANGED <<cfgVars, ctxErr, started, skipped, err, tostart, towait,
                   needsBuild, needsIndex, syncVars, aggVars, spawns, entered,
                   sends, recvd, classified>>

\* Capacity of cfg.donech: make(chan *task, jobs).
DonechCap == cfg.jobs

\* start's first deferred function, last statement: `t.cfg.donech <- t`.
Send(t) ==
    /\ pc[t] = "send"
    /\ Len(donech) < DonechCap
    /\ donech' = Append(donech, t)
    /\ sends' = [sends EXCEPT ![t] = @ + 1]
    /\ pc' = [pc EXCEPT ![t] = "exited"]
    /\ UNCHANGED <<cfgVars, ctxErr, started, done, skipped, err, tostart, towait,
                   needsBuild, needsIndex, jobch, mu, aggVars, spawns, entered,
                   doneCnt, recvd, classified>>

\* ------------------------------------------------------------------ buildAll

\* buildAll from `len(tasks) == 0` to the selection of todos.
Select ==
    /\ aggPc = "select"
    /\ IF tasks = {}
       THEN /\ ret' = <<"no packages to build">>
            /\ aggPc' = "returned"
            /\ UNCHANGED <<todos, toStartSel>>
       ELSE IF \E a \in args : a \notin tasks
       THEN /\ ret' = <<"constraint does not exist">>
            /\ aggPc' = "returned"
            /\ UNCHANGED <<todos, toStartSel>>
       ELSE /\ todos' = (IF args = {} THEN tasks ELSE args)
            /\ toStartSel' = todos'
            /\ aggPc' = "start"
            /\ UNCHANGED ret
    /\ UNCHANGED <<cfgVars, ctxErr, taskVars, syncVars, count, errs, skippedCnt,
                   log, histVars>>

\* `for _, t := range todos { t.maybeStart(ctx) }`, one iteration; after the
\* last one `count := len(todos)`.
SelStart(t) ==
    /\ aggPc = "start"
    /\ t \in toStartSel
    /\ maybeStart(t, NoTask, "idle", {})
    /\ toStartSel' = toStartSel \ {t}
    /\ IF toStartSel = {t}
       THEN aggPc' = "drain" /\ count' = Cardinality(todos)
       ELSE UNCHANGED <<aggPc, count>>
    /\ UNCHANGED <<cfgVars, ctxErr, done, skipped, err, needsBuild, needsIndex,
                   syncVars, todos, errs, skippedCnt, log, ret, entered, doneCnt,
                   sends, recvd, classified>>

\* Mutant: the drain loop stops with one task still outstanding.
DrainMoreButOne == Cardinality(todos) > 1

\* The drain loop runs while len(todos) != 0.
DrainMore == todos # {}

\* The K of `Finished building X (K/N)` once t is deleted from todos.
FinishedK(td, es) == count - (Cardinality(td) + Len(es))

\* Mutant: a skipped completion is not counted.
CountSkipLost(n) == n

\* `skipped++`.
CountSkip(n) == n + 1

\* One iteration of the drain loop: `t := <-cfg.donech` and its bookkeeping.
Recv ==
    /\ aggPc = "drain"
    /\ DrainMore
    /\ donech # <<>>
    /\ LET t == Head(donech)
           td == todos \ {t}
       IN  /\ donech' = Tail(donech)
           /\ todos' = td
           /\ recvd' = Append(recvd, t)
           /\ IF err[t] # Nil
              THEN /\ errs' = Append(errs, <<t, err[t]>>)
                   /\ log' = Append(log, <<"Failed", t, Len(errs) + 1, count>>)
                   /\ UNCHANGED skippedCnt
              ELSE IF skipped[t]
              THEN /\ skippedCnt' = CountSkip(skippedCnt)
                   /\ UNCHANGED <<errs, log>>
              ELSE /\ skippedCnt' = 0
                   /\ log' = (IF skippedCnt # 0
                                THEN Append(log, <<"Skipped", skippedCnt>>)
                                ELSE log)
                              \o << <<"Finished", t, FinishedK(td, errs), count>> >>
                   /\ UNCHANGED errs
    /\ UNCHANGED <<cfgVars, ctxErr, taskVars, jobch, mu, aggPc, toStartSel, count,
                   ret, spawns, entered, doneCnt, sends, classified>>

\* Mutant: the summary counts the selected packages.
CancelSummaryOfCount == <<"failed to build packages", count, CtxCanceled>>

\* The error buildAll returns when ctx.Err() != nil.
CancelSummary == <<"failed to build packages", Len(errs), CtxCanceled>>

\* After the drain loop: flush the skipped counter, then return the summary
\* if the context is cancelled and errors.Join(errs...) otherwise.
Return ==
    /\ aggPc = "drain"
    /\ ~DrainMore
    /\ log' = (IF skippedCnt # 0 THEN Append(log, <<"Skipped", skippedCnt>>) ELSE log)
    /\ ret' = (IF ctxErr THEN CancelSummary
               ELSE IF errs = <<>> THEN Nil ELSE <<"joined", errs>>)
    /\ aggPc' = "returned"
    /\ UNCHANGED <<cfgVars, ctxErr, taskVars, syncVars, todos, toStartSel, count,
                   errs, skippedCnt, histVars>>

\* The caller cancels the root context.
Cancel ==
    /\ ~ctxErr
    /\ ctxErr' = TRUE
    /\ UNCHANGED <<cfgVars, taskVars, syncVars, aggVars, histVars>>

\* ------------------------------------------------------------------ specification

\* A step of some task goroutine.
TaskSteps ==
    \/ \E t, d \in tasks : StartDep(t, d)
    \/ \E t, d \in tasks : WaitDep(t, d)
    \/ \E t \in tasks : Enter(t)
    \/ \E t \in tasks, a \in Range(cfg.archs) : BuildArchBegin(t, a)
    \/ \E t \in tasks, ok \in BOOLEAN : DriverReturns(t, ok)
    \/ \E t \in tasks : LockLogs(t)
    \/ \E t \in tasks : DumpLogs(t)
    \/ \E t \in tasks : LockIndex(t)
    \/ \E t \in tasks, a \in Range(cfg.archs) : IndexArch(t, a)
    \/ \E t \in tasks, ok \in BOOLEAN : GenerateReturns(t, ok)
    \/ \E t \in tasks : Release(t)
    \/ \E t \in tasks : MarkDone(t)
    \/ \E t \in tasks : Send(t)

\* A step of buildAll.
AggStep ==
    \/ Select
    \/ \E t \in tasks : SelStart(t)
    \/ Recv
    \/ Return

Progress == AggStep \/ TaskSteps

Next == Progress \/ Cancel

Spec == Init /\ [][Next]_vars

\* The same program, started so that classified is recorded.
ClassifySpec == ClassifyInit /\ [][Next]_vars

\* Goroutines that can run do run; nobody is obliged to cancel.
FairSpec == Spec /\ WF_vars(Progress)

\* ------------------------------------------------------------------ vocabulary of the properties

\* The selection buildAll works on (todos before the drain loop).
Selected == IF args = {} THEN tasks ELSE args

\* buildAll got past its configuration checks.
ValidRun == tasks # {} /\ args \subseteq tasks

\* t holds a job permit: it is between `jobch <- struct{}{}` and `<-jobch`.
InBuild(t) ==
    pc[t] \in {"buildLoop", "driver", "lockLogs", "dumpLogs", "lockIndex", "index",
             "generate", "release"}

\* No goroutine can take a step any more.
Quiescent == ~ENABLED Progress

\* The errors t.build itself can return while the context is live.
OwnErrors(t) == { <<"creating runner", t>>, <<"building package", t>>, <<"index", t>> }

\* The completions the aggregator consumed that carried an error.
ErrCompletions == { i \in DOMAIN recvd : err[recvd[i]] # Nil }

\* ------------------------------------------------------------------ C1

\* C1: a task that has entered its build step (acquired a job permit) has
\* every transitive dependency done with a nil error.
DepsSucceededBeforeBuild ==
    \A t \in tasks : entered[t] =>
        \A d \in TransDeps(t) : done[d] /\ err[d] = Nil

\* A task with an indirect dependency has entered its build step.
DepsSucceededBeforeBuildWitness ==
    \E t \in tasks : entered[t] /\ TransDeps(t) # deps[t] /\ pc[t] = "driver"

\* ------------------------------------------------------------------ C2

\* C2: the tasks holding a job permit are never more than the job limit.
JobCap == Cardinality({ t \in tasks : InBuild(t) }) <= cfg.jobs

\* The limit is reached while another task is blocked on jobch.
JobCapWitness ==
    /\ Cardinality({ t \in tasks : InBuild(t) }) = cfg.jobs
    /\ \E t \in tasks : pc[t] = "acquire"

\* ------------------------------------------------------------------ C3

\* C3: when every task is selected and the context is live, buildAll has
\* returned only after each task became done exactly once and after
\* receiving exactly one completion per task.
AllDoneOnceAtReturn ==
    (aggPc = "returned" /\ ValidRun /\ Selected = tasks /\ ~ctxErr) =>
        /\ \A t \in tasks : done[t] /\ doneCnt[t] = 1 /\ spawns[t] = 1
        /\ Len(recvd) = Cardinality(tasks)
        /\ Range(recvd) = tasks

\* A run over three packages with dependencies has returned.
AllDoneOnceAtReturnWitness ==
    /\ aggPc = "returned" /\ ValidRun /\ Selected = tasks /\ ~ctxErr
    /\ Cardinality(tasks) = 3
    /\ \E t \in tasks : Cardinality(deps[t]) = 2

\* ------------------------------------------------------------------ C4

\* The aggregator is parked on donech and no task goroutine can move.
Stuck ==
    /\ aggPc = "drain" /\ DrainMore /\ donech = <<>>
    /\ ~ENABLED TaskSteps

\* C4: the run is never stuck, and once nothing can move any more buildAll
\* has returned.
RunReturns == ~Stuck /\ (Quiescent => aggPc = "returned")

\* C4, as liveness: under fair scheduling buildAll eventually returns.
EventuallyReturns == <>(aggPc = "returned")

\* With one job and a chain of three packages everything has come to rest.
RunReturnsWitness ==
    /\ Quiescent /\ ValidRun /\ cfg.jobs = 1
    /\ \E t \in tasks : TransDeps(t) # deps[t] /\ entered[t]

\* ------------------------------------------------------------------ C5

\* C5: only selected tasks and their transitive dependencies are ever
\* started or built, and once nothing can move any more all of them are.
StartedIsClosure ==
    /\ \A t \in tasks : (started[t] \/ entered[t]) => t \in Closure(deps, Selected)
    /\ (Quiescent /\ ValidRun) =>
          \A t \in Closure(deps, Selected) : started[t]

\* Explicit targets: an unnamed dependency was started and built, another
\* package was left alone.
StartedIsClosureWitness ==
    /\ Quiescent /\ ValidRun /\ args # {}
    /\ \E t \in tasks \ args : entered[t]
    /\ \E u \in tasks : ~started[u]

\* ------------------------------------------------------------------ C6

\* The dependencies of t that are done with an error.
FailedDeps(t) == { d \in deps[t] : done[d] /\ err[d] # Nil }

FailureDoesNotSpread ==
    ~ctxErr =>
      \A t \in tasks :
        (started[t] /\ \A d \in TransDeps(t) : err[d] = Nil) =>
            /\ done[t] => entered[t] /\ err[t] \in {Nil} \cup OwnErrors(t)
            /\ Quiescent => done[t]

\* A task failed, and a task not depending on it was built without error.
FailureDoesNotSpreadWitness ==
    /\ ~ctxErr /\ Quiescent
    /\ \E t, u \in tasks :
          /\ u \notin TransDeps(t) /\ t # u
          /\ err[u] \in OwnErrors(u)
          /\ done[t] /\ entered[t] /\ err[t] = Nil /\ ~skipped[t]
          /\ \E i, j \in DOMAIN recvd : i < j /\ recvd[i] = u /\ recvd[j] = t

\* ------------------------------------------------------------------ C8

\* C8 (as claimed): once the context is cancelled no task enters its build
\* step any more (acquires a permit and classifies its architectures).
NoBuildAfterCancel ==
    [][ctxErr => \A t \in tasks : entered'[t] = entered[t]]_vars

\* ------------------------------------------------------------------ C9

\* C9 (as claimed): when nothing can move any more, every started task has
\* completed the send of exactly one completion.
EveryStartedTaskSent ==
    Quiescent => \A t \in tasks : started[t] => sends[t] = 1

\* ------------------------------------------------------------------ C10

\* C10 (as claimed): a run that returns the cancellation summary counts all
\* selected packages in it.
SummaryCountsSelected ==
    (aggPc = "returned" /\ ValidRun /\ ret[1] = "failed to build packages") =>
        ret = <<"failed to build packages", Cardinality(Selected), CtxCanceled>>

\* C10 (amended): buildAll returns the summary exactly when the context is
\* cancelled at its final check, and the summary counts the completions
\* received with an error, not the selected packages.
SummaryCountsErrors ==
    [][(aggPc = "drain" /\ aggPc' = "returned") =>
         IF ctxErr
         THEN ret' = <<"failed to build packages", Cardinality(ErrCompletions), CtxCanceled>>
         ELSE ret'[1] # "failed to build packages"]_vars

\* Two independent packages, one job, cancelled in mid-run: the summary
\* counts fewer packages than were selected.
SummaryCountsErrorsWitness ==
    /\ aggPc = "returned" /\ tasks = {1, 2} /\ deps[2] = {} /\ Selected = tasks
    /\ cfg.jobs = 1
    /\ ret = <<"failed to build packages", 1, CtxCanceled>>
    /\ err[recvd[1]] = Nil /\ err[recvd[2]] = CtxCanceled

\* ------------------------------------------------------------------ C11

\* The run has a configuration error: a --runner newRunner does not know, a
\* positional argument that names no package, or an empty workspace.
ConfigError == ~cfg.runnerOk \/ tasks = {} \/ ~(args \subseteq tasks)

\* C11 (as claimed): with a configuration error no task is ever started, no
\* permit is acquired, no build step runs and no completion is sent, and
\* once nothing can move any more buildAll has returned an error.
ConfigErrorsFatalBeforeStart ==
    ConfigError =>
        /\ \A t \in tasks : ~started[t] /\ ~entered[t] /\ sends[t] = 0
        /\ jobch = 0
        /\ Quiescent => aggPc = "returned" /\ ret # Nil

\* ------------------------------------------------------------------ C12

\* The artifact is in the published set fetched for arch a: buildAll keeps
\* the index of an architecture under its APK name.
Published(c, a) == ToAPK(a) \in c.published

\* C12 (as claimed): build classifies each effective architecture as
\* published (in neither set), else built locally (needsIndex only), else in
\* both sets; needsBuild is a subset of needsIndex; and the task is skipped,
\* going straight to the end of start, exactly when every effective
\* architecture is published.
ClassifiedBySpec ==
    \A t \in tasks : classified[t] # NotClassified =>
        LET c == classified[t] IN
        /\ \A a \in Range(c.archs) :
              IF Published(c, a) THEN a \notin c.needsBuild /\ a \notin c.needsIndex
              ELSE IF a \in c.local THEN a \notin c.needsBuild /\ a \in c.needsIndex
              ELSE a \in c.needsBuild /\ a \in c.needsIndex
        /\ c.needsBuild \subseteq c.needsIndex
        /\ skipped[t] <=> \A a \in Range(c.archs) : Published(c, a)
        /\ skipped[t] => pc[t] \in {"release", "send", "exited"} /\ err[t] = Nil

\* C12, restricted: the classification is as claimed whenever every --arch
\* value is already an APK architecture name.
ClassifiedBySpecForApkNames ==
    (\A a \in Range(cfg.archs) : ToAPK(a) = a) => ClassifiedBySpec

\* ------------------------------------------------------------------ C13

\* t is in a call of the build driver (bc.BuildPackage, or the log dump
\* after its failure) or of the index generator.
Invoking(t) == pc[t] \in {"driver", "lockLogs", "dumpLogs", "generate"}

\* C13: with --dry-run no task is ever in a call of the build driver or of
\* the index generator; no task gets an error, a task with an architecture
\* left to build or to index is not skipped, and every started task is done
\* once nothing can move any more; the job cap and the dependency order hold.
DryRunInvokesNothing ==
    cfg.dryrun =>
        /\ \A t \in tasks :
              /\ ~Invoking(t)
              /\ err[t] = Nil
              /\ (needsBuild[t] \cup needsIndex[t] # {}) => entered[t] /\ ~skipped[t]
              /\ skipped[t] => needsBuild[t] \cup needsIndex[t] = {}
              /\ (Quiescent /\ started[t]) => done[t]
        /\ JobCap
        /\ DepsSucceededBeforeBuild

\* A dry run has returned in which a task with a dependency had something
\* to build: it is done, not skipped, without error.
DryRunInvokesNothingWitness ==
    /\ cfg.dryrun /\ aggPc = "returned" /\ Quiescent
    /\ \E t \in tasks :
          /\ deps[t] # {} /\ done[t] /\ entered[t] /\ ~skipped[t] /\ err[t] = Nil
          /\ \E i \in DOMAIN log : log[i][1] = "Finished" /\ log[i][2] = t

\* ------------------------------------------------------------------ C14

\* The packages named on the progress lines logged so far.
Reported == { log[i][2] : i \in { j \in DOMAIN log : log[j][1] \in {"Finished", "Failed"} } }

\* C14 (as claimed): with explicit targets buildAll has consumed exactly
\* |args| completions when it returns, and only selected tasks ever appear on
\* a progress line.
DrainsOnlySelected ==
    (ValidRun /\ args # {}) =>
        /\ Reported \subseteq args
        /\ aggPc = "returned" => Len(recvd) = Cardinality(args)

\* ------------------------------------------------------------------ C15

\* C15 (as claimed): once the context is cancelled no task becomes started
\* and no start goroutine is spawned.
NoStartAfterCancel ==
    [][ctxErr => started' = started /\ spawns' = spawns]_vars

\* ------------------------------------------------------------------ C16

\* C16: a task never leaves started or done once it is there, it is done
\* only if started, and after every step the number of start goroutines
\* spawned for it is one if it is started and zero otherwise; it is marked
\* done at most once.
StartedOnce ==
    [][\A t \in tasks :
         /\ started[t] => started'[t]
         /\ done[t] => done'[t]
         /\ done'[t] => started'[t]
         /\ spawns'[t] = IF started'[t] THEN 1 ELSE 0
         /\ doneCnt'[t] = IF done'[t] THEN 1 ELSE 0]_vars

\* maybeStart has been called three times on package 1, by the selection
\* loop and by the start goroutines of its two dependents, and one start
\* goroutine was spawned for it.
StartedOnceWitness ==
    /\ Cardinality(tasks) = 3 /\ deps[2] = {1} /\ deps[3] = {1}
    /\ Selected = tasks /\ aggPc = "drain"
    /\ pc[2] = "waitDeps" /\ pc[3] = "waitDeps"
    /\ spawns[1] = 1 /\ ~done[1]

\* ------------------------------------------------------------------ C17

\* The position in recvd of the completion of package x.
RecvdAt(x) == CHOOSE p \in DOMAIN recvd : recvd[p] = x

\* The completions consumed up to and including that of x, without an
\* error and with one.
OkUpTo(x) == Cardinality({ q \in 1..RecvdAt(x) : err[recvd[q]] = Nil })
ErrUpTo(x) == Cardinality({ q \in 1..RecvdAt(x) : err[recvd[q]] # Nil })

\* C17 (as claimed): on every `Finished building X (K'/N)` line N is the
\* number of selected tasks and K' the number of completions without error
\* consumed so far, X included; on every `Failed to build X (K/N)` line K is
\* the number of completions with an error so far; K' and K are in 1..N.
ProgressLinesCount ==
    \A i \in DOMAIN log :
        LET line == log[i] IN
        line[1] \in {"Finished", "Failed"} =>
            /\ line[4] = Cardinality(Selected)
            /\ line[3] = IF line[1] = "Finished" THEN OkUpTo(line[2]) ELSE ErrUpTo(line[2])
            /\ 1 <= line[3] /\ line[3] <= line[4]

\* C17, restricted: the lines are as claimed whenever the selection holds
\* every dependency of a selected task.
ProgressLinesCountForClosedSelection ==
    (ValidRun /\ Closure(deps, Selected) = Selected) => ProgressLinesCount

\* ------------------------------------------------------------------ C18

RECURSIVE SumSkipped(_)
\* The sum of M over the `Skipped building M packages` lines of l.
SumSkipped(l) ==
    IF l = <<>> THEN 0
    ELSE (IF Head(l)[1] = "Skipped" THEN Head(l)[2] ELSE 0) + SumSkipped(Tail(l))

\* The completions consumed so far whose task was skipped.
SkippedConsumed == Cardinality({ q \in DOMAIN recvd : err[recvd[q]] = Nil /\ skipped[recvd[q]] })

\* The skipped completions consumed and not yet reported on a line.
PendingSkipped == SkippedConsumed - SumSkipped(log)

\* C18: every `Skipped building M packages` line has M >= 1; a line is
\* written only on receiving the completion of a built task or after the
\* drain loop, with nothing outstanding; while buildAll runs its counter is
\* the number of skipped completions not yet reported, and when it has
\* returned none is left unreported: the Ms add up to the skipped
\* completions consumed.
SkippedLinesAddUp ==
    [][/\ \A i \in DOMAIN log' : log'[i][1] = "Skipped" => log'[i][2] >= 1
       /\ SumSkipped(log') # SumSkipped(log) =>
             \/ /\ recvd' # recvd
                /\ LET t == recvd'[Len(recvd')] IN err[t] = Nil /\ ~skipped[t]
             \/ aggPc = "drain" /\ aggPc' = "returned" /\ todos = {}
       /\ IF aggPc' = "returned"
          THEN PendingSkipped' = 0
          ELSE PendingSkipped' = skippedCnt']_vars

\* A run has returned that reported skipped packages twice, once before a
\* `Finished building` line and once after the drain loop.
SkippedLinesAddUpWitness ==
    /\ aggPc = "returned"
    /\ \E i, j, k \in DOMAIN log :
          /\ i < j /\ j < k /\ k = Len(log)
          /\ log[i][1] = "Skipped" /\ log[j][1] = "Finished" /\ log[k][1] = "Skipped"

\* ------------------------------------------------------------------ C19

\* t is inside the log dump of a failed build or inside the index block of
\* build (from cfg.mu.Lock() to the deferred Unlock).
InCritical(t) == pc[t] \in {"dumpLogs", "index", "generate"}

\* C19: at most one task is inside a log dump or an index block, and it is
\* the holder of the mutex; the holder holds a job permit, is neither
\* waiting for a dependency nor acquiring a permit, and is not done.
MutexExclusive ==
    /\ Cardinality({ t \in tasks : InCritical(t) }) <= 1
    /\ \A t \in tasks : InCritical(t) <=> mu = t
    /\ mu # NoTask =>
          /\ InBuild(mu) /\ entered[mu] /\ jobch >= 1
          /\ pc[mu] \notin {"startDeps", "waitDeps", "acquire"}
          /\ ~done[mu]

\* A task is generating its index while another waits for the mutex to dump
\* the log of its failed build.
MutexExclusiveWitness ==
    \E t, u \in tasks : pc[t] = "generate" /\ mu = t /\ pc[u] = "lockLogs"

\* ------------------------------------------------------------------ C20

\* t is in the index part of build, from cfg.mu.Lock() on.
InIndexPart(t) == pc[t] \in {"lockIndex", "index", "generate"}

\* C20: after a failure of the build driver the task only dumps the log and
\* returns the error `building package`; a task with an error builds and
\* indexes nothing more and keeps its error; the index part is entered only
\* with --generate-index, without error and with nothing left to build, and
\* left only by returning; without --generate-index a task whose last build
\* succeeded returns nil, not skipped.
DriverFailureEndsTask ==
    [][\A t \in tasks :
         /\ pc[t] = "lockLogs" => pc'[t] \in {"lockLogs", "dumpLogs"}
         /\ pc[t] = "dumpLogs" =>
               \/ pc'[t] = "dumpLogs"
               \/ pc'[t] = "release" /\ err'[t] = <<"building package", t>>
         /\ err[t] # Nil =>
               /\ err'[t] = err[t]
               /\ pc'[t] \in {"release", "markDone", "send", "exited"}
         /\ InIndexPart(t)' =>
               cfg.generateIndex /\ err'[t] = Nil /\ needsBuild'[t] = {}
         /\ InIndexPart(t) => InIndexPart(t)' \/ pc'[t] = "release"
         /\ (pc[t] = "driver" /\ pc'[t] = "release") =>
               ~cfg.generateIndex /\ err'[t] = Nil /\ ~skipped'[t]]_vars

\* The build driver failed for one architecture of a task while the other
\* was still to be built and both were to be indexed; the task holds the
\* mutex for the log dump.
DriverFailureEndsTaskWitness ==
    \E t \in tasks :
        /\ pc[t] = "dumpLogs" /\ mu = t /\ cfg.generateIndex
        /\ needsBuild[t] # {} /\ Cardinality(needsIndex[t]) = 2

\* ------------------------------------------------------------------ C21

\* C21 (as claimed): for every edge A -> B of the graph (B in the adjacency
\* entry of A), B has not entered its build step unless A is done.
EdgeSourceBuiltFirst ==
    \A a \in tasks : \A b \in m[a] : entered[b] => done[a]

\* C21 (amended): for every edge A -> B of the graph, A has not entered its
\* build step unless B is done, without error.
EdgeTargetBuiltFirst ==
    \A a \in tasks : \A b \in m[a] : entered[a] => done[b] /\ err[b] = Nil

\* Edge 2 -> 1: the completion of 1 was consumed first, then 2 entered its
\* build step and finished, and only its completion is still to be consumed.
EdgeTargetBuiltFirstWitness ==
    /\ tasks = {1, 2} /\ m[2] = {1} /\ Selected = tasks
    /\ recvd = <<1>> /\ entered[2] /\ done[2] /\ err[2] = Nil /\ ~skipped[2]
    /\ donech = <<2>>

\* ------------------------------------------------------------------ C22

\* What filterArchs(X, T) is claimed to return: X when T is empty or exactly
\* <<"all">>, and otherwise the elements of X that are members of T, in the
\* order of X.
filterArchsBySpec(X, T) ==
    IF T = <<>> \/ T = <<"all">> THEN X ELSE SelectSeqIn(X, Range(T))

\* C22 (as claimed): the effective architectures every build computed are
\* those claimed for the --arch list and the recipe's targets, and the
\* --arch list is never modified.
FilteredBySpec ==
    [][/\ cfg.archs' = cfg.archs
       /\ \A t \in tasks : classified'[t] # NotClassified =>
             classified'[t].archs = filterArchsBySpec(cfg.archs, classified'[t].targets)]_vars

\* C22, restricted: filterArchs is as claimed for every target list that
\* does not begin with "all" followed by more entries.
FilteredBySpecUnlessAllFirst ==
    \A t \in tasks : classified[t] # NotClassified =>
        LET T == classified[t].targets IN
        (Len(T) >= 2 => T[1] # "all") =>
            classified[t].archs = filterArchsBySpec(cfg.archs, T)

====
